---- MODULE Spec2Model ----
(***************************************************************************)
(* State-machine model of smartanthill/network/service.py (ControlService, *)
(* TransportService, RouterService, NetworkService) and of Config.get in   *)
(* smartanthill/config.py.                                                 *)
(*                                                                         *)
(* The message bus (litemq), the protocol wrappers, the device registry    *)
(* and the service container are collaborators whose code is outside the   *)
(* modelled files; they are modelled at their interface.                   *)
(***************************************************************************)
EXTENDS Integers, Naturals, Sequences, FiniteSets, TLC

(***************************************************************************)
(* Bounds of the model.                                                    *)
(***************************************************************************)
\* NetworkService instances built by makeService and started, one after
\* the other, during one run.
MaxStarts == 2
\* Cap on the connect failures of one RouterService instance.
MaxFail == 2
\* Units entering the stack during one run: client messages published on
\* client->control and packets arriving from the physical links.
MaxUnits == 1
\* Longest dotted key path handed to Config.get.
MaxPath == 3

(***************************************************************************)
(* Program constants.                                                      *)
(***************************************************************************)
RECONNECT_DELAY == 1

(***************************************************************************)
(* Device registry snapshots (get_service_named("device").get_devices()).  *)
(* A device has a router flag, a connection type and child node ids.       *)
(***************************************************************************)
Dev(router, ctype, nodes) == [router |-> router, ctype |-> ctype, nodes |-> nodes]

RegNoRouter == (1 :> Dev(FALSE, "serial", {2}))
RegOneRouter == (1 :> Dev(TRUE, "serial", {2}))
RegTwoRouters == (1 :> Dev(TRUE, "serial", {2})) @@ (3 :> Dev(TRUE, "serial", {}))
RegOtherType == (1 :> Dev(TRUE, "serial", {})) @@ (3 :> Dev(TRUE, "tcp", {2}))

Registries == {RegNoRouter, RegOneRouter, RegTwoRouters, RegOtherType}

\* connection.params of a freshly parsed serial connection.
InitialParams == {"port", "baudrate"}

(***************************************************************************)
(* State.                                                                  *)
(***************************************************************************)
VARIABLES
    devices,     \* the registry: device id -> Dev
    params,      \* device id -> keys present in devobj.connection.params
    starts,      \* NetworkService instances started so far
    netRunning,  \* the current NetworkService instance is running
    declares,    \* calls of declare_exchange("network")
    undeclares,  \* calls of undeclare_exchange("network")
    exchange,    \* the exchange "network" is declared on the bus
    bindings,    \* subscriptions on the exchange: [queue, key, owner]
    calls,       \* per NetworkService instance, the calls it and its children
                 \* made on the bus and the children's startService and
                 \* stopService, in order
    children,    \* the services the current NetworkService instance holds
    routers,     \* RouterService instances: <<generation, device id>> -> record
    inflight,    \* deliveries the bus owes to a handler: [owner, key, unit]
    sends,       \* TransportService outbound attempts: the Control message,
                 \* the state of the send and the attempt's own events in order
    trace,       \* per unit (by its data byte), the publishes, link receptions
                 \* and router outcomes that concern it, in order
    msgs,        \* client messages published so far
    pkts,        \* packets received from the links so far
    cfgData,     \* Config._data
    cfgCall,     \* the last call of Config.get: <<key path, default>>
    cfgResult    \* what that call returned or raised

lifeVars == <<starts, netRunning, declares, undeclares, exchange, children>>
busVars == <<bindings, calls>>
msgVars == <<inflight, sends, trace, msgs, pkts>>
cfgVars == <<cfgData, cfgCall, cfgResult>>
vars == <<devices, params, starts, netRunning, declares, undeclares, exchange,
          bindings, calls, children, routers, inflight, sends, trace, msgs, pkts,
          cfgData, cfgCall, cfgResult>>

(***************************************************************************)
(* The bus (litemq) at its interface.                                      *)
(***************************************************************************)
Binding(q, k, o) == [queue |-> q, key |-> k, owner |-> o]

\* The handlers: the two singleton services and one per RouterService.
ControlOwner == <<"control", 0, 0>>
TransportOwner == <<"transport", 0, 0>>
RouterOwner(r) == <<"router", r[1], r[2]>>
NetworkOwner == <<"network", 0, 0>>

\* consume(exchange, queue, key, callback): the callback is attached to the
\* named queue.
Consume(b, q, k, o) == b \cup {Binding(q, k, o)}

\* unconsume(exchange, queue): the queue is named, not the callback.
Unconsume(b, q) == {x \in b : x.queue # q}

\* undeclare_exchange("network"): the exchange goes with its queues.
UndeclareExchange(b) == {x \in b : FALSE}

\* A call as a service makes it: consume, unconsume, declare_exchange and
\* undeclare_exchange on the bus, startService and stopService of the
\* container's base class.
Call(op, queue, key, who) == [op |-> op, queue |-> queue, key |-> key, who |-> who]

\* What a call does to the subscriptions of the exchange.
ApplyCall(b, c) ==
    CASE c.op = "consume" -> Consume(b, c.queue, c.key, c.who)
      [] c.op = "unconsume" -> Unconsume(b, c.queue)
      [] c.op = "undeclare_exchange" -> UndeclareExchange(b)
      [] OTHER -> b

RECURSIVE ApplyCalls(_, _)
ApplyCalls(b, cs) ==
    IF cs = <<>> THEN b ELSE ApplyCalls(ApplyCall(b, Head(cs)), Tail(cs))

\* produce(exchange, key, unit): one delivery per callback bound to the key.
Deliveries(b, k, u) ==
    {[owner |-> x.owner, queue |-> x.queue, key |-> k, unit |-> u] :
        x \in {y \in b : y.key = k}}

\* An observable event: a publish on a routing key, a segment handed to a
\* router's wrapper for the link, a call of the Transport wrapper's
\* send_message, the result of a handler.
Event(ev, key, unit, who, att) ==
    [ev |-> ev, key |-> key, unit |-> unit, who |-> who, att |-> att]
Pub(key, unit, att) == Event("pub", key, unit, <<"bus", 0, 0>>, att)

(***************************************************************************)
(* NetworkService.startService, lines 176-185: the routers of a snapshot   *)
(* and the ids a router is built with.                                     *)
(***************************************************************************)
\* Variant: every device of the registry gets a RouterService.
RouterDevsAll(reg) == DOMAIN reg

RouterDevs(reg) == {d \in DOMAIN reg : reg[d].router}

DeviceIds(reg, d) == {d} \cup reg[d].nodes

\* RouterService.__init__
NewRouter(reg, d) ==
    [deviceids |-> DeviceIds(reg, d),
     nums      |-> 0,        \* _reconnect_nums
     litemq    |-> FALSE,    \* _litemq is set
     running   |-> FALSE,    \* the container's running flag
     stopped   |-> FALSE,    \* stopService has been called
     timers    |-> <<>>,     \* pending reactor.callLater delays
     sched     |-> <<>>,     \* every delay this instance has scheduled
     attempts  |-> 0,        \* calls of startService
     linkOpen  |-> FALSE,    \* SerialPort was constructed
     raised    |-> FALSE]    \* startService let an exception out

(***************************************************************************)
(* RouterService.startService, lines 120-142.                              *)
(***************************************************************************)
\* Lines 122-132: the try block raises when the port key is gone from the
\* connection's params (KeyError) or when SerialPort cannot open the link.
ConnectRaises(ctype, pkeys, openable) ==
    ctype = "serial" /\ ("port" \notin pkeys \/ ~openable)

\* Lines 124-129: _kwargs is connection.params itself; the key 'port' is
\* renamed in place.
ParamsAfterAttempt(ctype, pkeys) ==
    IF ctype = "serial" /\ "port" \in pkeys
    THEN (pkeys \ {"port"}) \cup {"deviceNameOrPortNumber", "protocol", "reactor"}
    ELSE pkeys

\* Variant: every retry is scheduled after the base delay.
RouterConnectFailedFixedDelay(rec) ==
    [rec EXCEPT !.attempts = @ + 1,
                !.nums = @ + 1,
                !.timers = Append(@, RECONNECT_DELAY),
                !.sched = Append(@, RECONNECT_DELAY)]

\* Variant: the retry is scheduled twice.
RouterConnectFailedTwoTimers(rec) ==
    [rec EXCEPT !.attempts = @ + 1,
                !.nums = @ + 1,
                !.timers = @ \o <<(rec.nums + 1) * RECONNECT_DELAY,
                                  (rec.nums + 1) * RECONNECT_DELAY>>,
                !.sched = Append(@, (rec.nums + 1) * RECONNECT_DELAY)]

\* Variant: the failure leaves startService as an exception.
RouterConnectFailedEscalates(rec) ==
    [rec EXCEPT !.attempts = @ + 1, !.raised = TRUE]

\* Lines 133-137: the failure branch.
RouterConnectFailed(rec) ==
    [rec EXCEPT !.attempts = @ + 1,
                !.nums = @ + 1,
                !.timers = Append(@, (rec.nums + 1) * RECONNECT_DELAY),
                !.sched = Append(@, (rec.nums + 1) * RECONNECT_DELAY)]

\* Lines 139-142: the success branch.
RouterConnected(rec, ctype) ==
    [rec EXCEPT !.attempts = @ + 1,
                !.litemq = TRUE,
                !.running = TRUE,
                !.linkOpen = (@ \/ ctype = "serial")]

RouterStartService(rec, ctype, pkeys, openable) ==
    IF ConnectRaises(ctype, pkeys, openable)
    THEN RouterConnectFailed(rec)
    ELSE RouterConnected(rec, ctype)

\* Lines 139-141: the subscription of a connected router.
RouterConsumeCall(r) == Call("consume", "routing.out", "transport->routing", RouterOwner(r))

RouterConsume(b, r) == ApplyCall(b, RouterConsumeCall(r))

\* Lines 139-142: what the attempt calls, none in the failure branch.
RouterStartCalls(ctype, pkeys, openable, r) ==
    IF ConnectRaises(ctype, pkeys, openable)
    THEN <<>>
    ELSE <<RouterConsumeCall(r), Call("startService", "", "", RouterOwner(r))>>

\* RouterService.stopService, lines 144-147.
RouterStopService(rec) == [rec EXCEPT !.running = FALSE, !.stopped = TRUE]

\* Variant: the subscription is left on the bus.
RouterStopCallsKeepSubscription(rec, r) == <<Call("stopService", "", "", RouterOwner(r))>>

RouterStopCalls(rec, r) ==
    <<Call("stopService", "", "", RouterOwner(r))>> \o
    (IF rec.litemq THEN <<Call("unconsume", "routing.out", "", RouterOwner(r))>> ELSE <<>>)

(***************************************************************************)
(* ControlService and TransportService: startService and stopService.      *)
(***************************************************************************)
ControlStartCalls ==
    <<Call("consume", "control.in", "transport->control", ControlOwner),
      Call("consume", "control.out", "client->control", ControlOwner),
      Call("startService", "", "", ControlOwner)>>

ControlStartService(b) == ApplyCalls(b, ControlStartCalls)

ControlStopCalls ==
    <<Call("stopService", "", "", ControlOwner),
      Call("unconsume", "control.in", "", ControlOwner),
      Call("unconsume", "control.out", "", ControlOwner)>>

ControlStopService(b) == ApplyCalls(b, ControlStopCalls)

TransportStartCalls ==
    <<Call("consume", "transport.in", "routing->transport", TransportOwner),
      Call("consume", "transport.out", "control->transport", TransportOwner),
      Call("startService", "", "", TransportOwner)>>

TransportStartService(b) == ApplyCalls(b, TransportStartCalls)

TransportStopCalls ==
    <<Call("stopService", "", "", TransportOwner),
      Call("unconsume", "transport.in", "", TransportOwner),
      Call("unconsume", "transport.out", "", TransportOwner)>>

TransportStopService(b) == ApplyCalls(b, TransportStopCalls)

(***************************************************************************)
(* Units and the protocol wrappers' conversions.  A ControlMessage is      *)
(* <<ack, destination, data>>; its raw form carries a header byte, the     *)
(* source, the destination and the data; a segment is the raw message      *)
(* under a segment header, with the destination at offset 2; a packet is   *)
(* the segment between a start and an end byte.                            *)
(***************************************************************************)
Dsts == 0..3

MessageToRaw(m) == <<m[1], 0, m[2], m[3]>>

\* p.ControlProtocol.rawmessage_to_message
RawToMessage(raw) == <<raw[1] % 2, raw[3], raw[4]>>

RawToSegment(raw) == <<raw[1] + 2, raw[2], raw[3], raw[4]>>

SegmentToRaw(seg) == <<seg[1] - 2, seg[2], seg[3], seg[4]>>

SegmentToPacket(seg) == <<7>> \o seg \o <<9>>

\* p.RoutingProtocol.packet_to_segment
PacketToSegment(packet) == SubSeq(packet, 2, Len(packet) - 1)

\* What the Transport wrapper's send_message ends with: it raises, or it
\* succeeds with a true result.
SendOutcomes == {"raise", "true"}

\* litemq.produce(exchange, key, unit): the deliveries and the event.
Produce(b, key, unit, att) ==
    [out |-> Deliveries(b, key, unit), evs |-> <<Pub(key, unit, att)>>]

(***************************************************************************)
(* ControlService: write and the three callbacks, lines 40-55.             *)
(***************************************************************************)
\* Variant: the encoded bytes are published on the inbound key.
ControlWriteWrongKey(b, message) == Produce(b, "transport->control", message, 0)

ControlWrite(b, message) == Produce(b, "control->transport", message, 0)

ControlClimessageProtocallback(b, message) == Produce(b, "control->client", message, 0)

\* _protocol.dataReceived decodes the raw message and calls back.
ControlInmessageMqcallback(b, message) ==
    ControlClimessageProtocallback(b, RawToMessage(message))

\* _protocol.send_message encodes the message and calls write.
ControlOutmessageMqcallback(b, message) == ControlWrite(b, MessageToRaw(message))

(***************************************************************************)
(* TransportService: write and the callbacks, lines 80-107.                *)
(***************************************************************************)
TransportRawmessageProtocallback(b, message) ==
    Produce(b, "transport->control", message, 0)

TransportWrite(b, segment) == Produce(b, "transport->routing", segment, 0)

\* _protocol.dataReceived decodes the segment and calls back.
TransportInsegmentMqcallback(b, message) ==
    TransportRawmessageProtocallback(b, SegmentToRaw(message))

\* Lines 95-102: the message view is derived, send_message is called once
\* and the wrapper writes the segment; the result is awaited.
TransportOutmessageStart(b, message, att) ==
    LET w == TransportWrite(b, RawToSegment(message))
    IN [out |-> w.out,
        evs |-> w.evs,
        log |-> <<Event("send", "send_message", message, TransportOwner, att)>>,
        ctrlmsg |-> RawToMessage(message)]

\* Variant: the errback re-raises without publishing.
TransportOnErrSilent(b, ctrlmsg, att) ==
    [out |-> {}, evs |-> <<Event("ret", "failure", ctrlmsg, TransportOwner, att)>>]

\* Variant: the errback publishes and swallows the failure.
TransportOnErrSwallow(b, ctrlmsg, att) ==
    LET e == Produce(b, "transport->err", ctrlmsg, att)
    IN [out |-> e.out,
        evs |-> e.evs \o <<Event("ret", "None", ctrlmsg, TransportOwner, att)>>]

\* Lines 98-100: the errback publishes the Control message, then re-raises.
TransportOnErr(b, ctrlmsg, att) ==
    LET e == Produce(b, "transport->err", ctrlmsg, att)
    IN [out |-> e.out,
        evs |-> e.evs \o <<Event("ret", "failure", ctrlmsg, TransportOwner, att)>>]

\* Variant: the ack is published whatever the message's ack flag.
TransportOnResultAlwaysAck(b, ctrlmsg, att, result) ==
    LET a == IF result = "true"
             THEN Produce(b, "transport->ack", ctrlmsg, att)
             ELSE [out |-> {}, evs |-> <<>>]
    IN [out |-> a.out,
        evs |-> a.evs \o <<Event("ret", result, ctrlmsg, TransportOwner, att)>>]

\* Lines 104-107: the result of the send is there.
TransportOnResult(b, ctrlmsg, att, result) ==
    LET a == IF result = "true" /\ ctrlmsg[1] = 1
             THEN Produce(b, "transport->ack", ctrlmsg, att)
             ELSE [out |-> {}, evs |-> <<>>]
    IN [out |-> a.out,
        evs |-> a.evs \o <<Event("ret", result, ctrlmsg, TransportOwner, att)>>]

TransportOutmessageDone(b, ctrlmsg, att, outcome) ==
    IF outcome = "raise"
    THEN TransportOnErr(b, ctrlmsg, att)
    ELSE TransportOnResult(b, ctrlmsg, att, outcome)

(***************************************************************************)
(* RouterService: the callbacks, lines 149-160.                            *)
(***************************************************************************)
\* Variant: the segment is published on the outbound key.
RouterInpacketProtocallbackWrongKey(b, packet) ==
    Produce(b, "transport->routing", PacketToSegment(packet), 0)

RouterInpacketProtocallback(b, packet) ==
    Produce(b, "routing->transport", PacketToSegment(packet), 0)

\* Variant: the destination is read one byte early.
RouterRejectsOffByOne(deviceids, message) == message[2] \notin deviceids

\* Line 157: ord(message[2]) not in self.options['deviceids'].
RouterRejects(deviceids, message) == message[3] \notin deviceids

RouterOutsegmentMqcallback(deviceids, owner, message) ==
    IF RouterRejects(deviceids, message)
    THEN [out |-> {}, evs |-> <<Event("ret", "False", message, owner, 0)>>]
    ELSE [out |-> {},
          evs |-> <<Event("link", "send_segment", message, owner, 0),
                    Event("ret", "None", message, owner, 0)>>]

(***************************************************************************)
(* Config (config.py).  A configuration value is a leaf or a dict from     *)
(* keys to values; Config._data is a dict.  A key path is the sequence of  *)
(* keys key_path.split(".") yields.                                        *)
(***************************************************************************)
Leaf(v) == <<"leaf", v>>
Dict(f) == <<"dict", f>>
IsDict(value) == value[1] = "dict"
None == <<"none">>

Keys == {"a", "b"}

DictsOver(values) == {Dict(f) : f \in UNION {[K -> values] : K \in SUBSET Keys}}

Leaves == {Leaf(0), Leaf(1)}
ConfigData == DictsOver(Leaves \cup DictsOver(Leaves))

KeyPaths == UNION {[1..n -> Keys] : n \in 1..MaxPath}
Defaults == {None, Leaf(7)}

\* Lines 46-49: value = value[k] for every key of the path.  A key missing
\* from a dict raises KeyError; a value that is no dict cannot be indexed
\* by a key and raises TypeError.
RECURSIVE Lookup(_, _)
Lookup(value, path) ==
    IF path = <<>> THEN <<"value", value>>
    ELSE IF ~IsDict(value) THEN <<"TypeError">>
    ELSE IF Head(path) \notin DOMAIN value[2] THEN <<"KeyError">>
    ELSE Lookup(value[2][Head(path)], Tail(path))

\* Config.get, lines 44-54; Config.__getitem__ is get without a default.
ConfigGet(data, key_path, default) ==
    LET got == Lookup(data, key_path)
    IN IF got[1] = "value" THEN <<"return", got[2]>>
       ELSE IF got[1] = "KeyError"
            THEN IF default # None THEN <<"return", default>>
                 ELSE <<"raise", "ConfigKeyError", key_path>>
            ELSE <<"raise", "TypeError", key_path>>

(***************************************************************************)
(* The calls NetworkService makes on the exchange, counted.                *)
(***************************************************************************)
\* Variant: the exchange is declared only if it was never declared before.
DeclareExchangeOnce(n) == IF n = 0 THEN 1 ELSE n

\* Line 171: declare_exchange("network").
DeclareExchange(n) == n + 1

\* Line 191: undeclare_exchange("network").
UndeclareExchangeCall(n) == n + 1

(***************************************************************************)
(* NetworkService: the children it adds and the calls of its startService  *)
(* and stopService.  The container starts the children in the order they   *)
(* were added and stops them in the reverse order.                         *)
(***************************************************************************)
RECURSIVE Ascending(_)
Ascending(S) ==
    IF S = {} THEN <<>>
    ELSE LET m == CHOOSE x \in S : \A y \in S : x <= y
         IN <<m>> \o Ascending(S \ {m})

Reverse(seq) == [i \in 1..Len(seq) |-> seq[Len(seq) + 1 - i]]

RECURSIVE Concat(_)
Concat(seqs) == IF seqs = <<>> THEN <<>> ELSE Head(seqs) \o Concat(Tail(seqs))

\* Lines 173-185: setServiceParent, one child after the other.
NetworkChildren(reg, g) ==
    LET ds == Ascending(RouterDevs(reg))
    IN <<ControlOwner, TransportOwner>> \o
       [i \in 1..Len(ds) |-> RouterOwner(<<g, ds[i]>>)]

\* The first startService of each router of the snapshot.
NetworkRoutersStarted(reg, pk, openable) ==
    [d \in RouterDevs(reg) |->
        RouterStartService(NewRouter(reg, d), reg[d].ctype, pk[d], openable[d])]

\* The routers whose startService is called: a child is not started once
\* an earlier child's startService has let an exception out.
NetworkRoutersReached(reg, pk, openable) ==
    LET started == NetworkRoutersStarted(reg, pk, openable)
    IN {d \in DOMAIN started : \A e \in DOMAIN started : started[e].raised => d <= e}

\* Line 187 does not return normally when a child's startService raises.
NetworkStartCompletes(reg, pk, openable) ==
    \A d \in RouterDevs(reg) :
        ~NetworkRoutersStarted(reg, pk, openable)[d].raised

\* Lines 170-187.
NetworkStartCalls(reg, pk, openable, g) ==
    LET ds == Ascending(NetworkRoutersReached(reg, pk, openable))
    IN <<Call("declare_exchange", "", "", NetworkOwner),
         Call("startService", "", "", NetworkOwner)>> \o
       ControlStartCalls \o TransportStartCalls \o
       Concat([i \in 1..Len(ds) |->
                  RouterStartCalls(reg[ds[i]].ctype, pk[ds[i]], openable[ds[i]],
                                   <<g, ds[i]>>)])

\* The children's stopService, last added first.
NetworkChildrenStopCalls(rs, g) ==
    LET ds == Reverse(Ascending({r[2] : r \in {x \in DOMAIN rs : x[1] = g}}))
    IN Concat([i \in 1..Len(ds) |-> RouterStopCalls(rs[<<g, ds[i]>>], <<g, ds[i]>>)]) \o
       TransportStopCalls \o ControlStopCalls

\* Variant: the exchange is undeclared before the children are stopped.
NetworkStopCallsUndeclareFirst(rs, g) ==
    <<Call("undeclare_exchange", "", "", NetworkOwner),
      Call("stopService", "", "", NetworkOwner)>> \o NetworkChildrenStopCalls(rs, g)

\* Lines 190-191.
NetworkStopCalls(rs, g) ==
    <<Call("stopService", "", "", NetworkOwner)>> \o NetworkChildrenStopCalls(rs, g) \o
    <<Call("undeclare_exchange", "", "", NetworkOwner)>>

(***************************************************************************)
(* Init: nothing started; the registry holds one of the snapshots.         *)
(***************************************************************************)
Init ==
    /\ devices \in Registries
    /\ params = [d \in DOMAIN devices |-> InitialParams]
    /\ starts = 0
    /\ netRunning = FALSE
    /\ declares = 0
    /\ undeclares = 0
    /\ exchange = FALSE
    /\ bindings = {}
    /\ calls = <<>>
    /\ children = <<>>
    /\ routers = <<>>
    /\ inflight = {}
    /\ sends = <<>>
    /\ trace = <<>>
    /\ msgs = 0
    /\ pkts = 0
    /\ cfgData = Dict([k \in Keys |-> Leaf(0)])
    /\ cfgCall = <<>>
    /\ cfgResult = <<>>

(***************************************************************************)
(* NetworkService.startService, lines 169-187, on a fresh instance from    *)
(* makeService: declare the exchange, add Control and Transport, add one   *)
(* RouterService per router device, then start every child.                *)
(***************************************************************************)
NetStart(openable) ==
    /\ ~netRunning
    /\ starts < MaxStarts
    /\ LET g == starts + 1
           rd == RouterDevs(devices)
           started == NetworkRoutersStarted(devices, params, openable)
           reached == NetworkRoutersReached(devices, params, openable)
           cs == NetworkStartCalls(devices, params, openable, g)
       IN /\ starts' = g
          /\ declares' = DeclareExchange(declares)
          /\ exchange' = TRUE
          /\ children' = NetworkChildren(devices, g)
          /\ calls' = Append(calls, cs)
          /\ bindings' = ApplyCalls(bindings, cs)
          /\ params' = [d \in DOMAIN params |->
                           IF d \in reached THEN ParamsAfterAttempt(devices[d].ctype, params[d])
                           ELSE params[d]]
          /\ routers' = [r \in DOMAIN routers \cup {<<g, d>> : d \in rd} |->
                            IF r \in DOMAIN routers THEN routers[r]
                            ELSE IF r[2] \in reached THEN started[r[2]]
                            ELSE NewRouter(devices, r[2])]
          /\ netRunning' = NetworkStartCompletes(devices, params, openable)
    /\ UNCHANGED <<cfgVars, devices, undeclares, msgVars>>

(***************************************************************************)
(* NetworkService.stopService, lines 189-191: the children are stopped     *)
(* (routers, Transport, Control), then the exchange is undeclared.  The     *)
(* children stay with the stopped instance.                                *)
(***************************************************************************)
NetStop ==
    /\ netRunning
    /\ LET mine == {r \in DOMAIN routers : r[1] = starts}
           cs == NetworkStopCalls(routers, starts)
       IN /\ routers' = [r \in DOMAIN routers |->
                            IF r \in mine THEN RouterStopService(routers[r]) ELSE routers[r]]
          /\ calls' = [calls EXCEPT ![starts] = @ \o cs]
          /\ bindings' = ApplyCalls(bindings, cs)
          /\ inflight' = {x \in inflight :
                             \E y \in ApplyCalls(bindings, cs) :
                                y.queue = x.queue /\ y.owner = x.owner}
    /\ undeclares' = UndeclareExchangeCall(undeclares)
    /\ exchange' = FALSE
    /\ netRunning' = FALSE
    /\ UNCHANGED <<cfgVars, devices, params, starts, declares, children, sends, trace,
                   msgs, pkts>>

(***************************************************************************)
(* A pending reactor.callLater fires: RouterService.startService again.    *)
(***************************************************************************)
RouterTimerFire(r, i, openable) ==
    /\ r \in DOMAIN routers
    /\ i \in 1..Len(routers[r].timers)
    /\ routers[r].nums < MaxFail
    /\ LET d == r[2]
           rec == [routers[r] EXCEPT !.timers =
                      SubSeq(@, 1, i - 1) \o SubSeq(@, i + 1, Len(@))]
           new == RouterStartService(rec, devices[d].ctype, params[d], openable)
           cs == RouterStartCalls(devices[d].ctype, params[d], openable, r)
       IN /\ routers' = [routers EXCEPT ![r] = new]
          /\ params' = [params EXCEPT ![d] = ParamsAfterAttempt(devices[d].ctype, @)]
          /\ calls' = [calls EXCEPT ![r[1]] = @ \o cs]
          /\ bindings' = ApplyCalls(bindings, cs)
    /\ UNCHANGED <<cfgVars, devices, lifeVars, msgVars>>

(***************************************************************************)
(* Message traffic.  A client publishes on client->control; the bus calls  *)
(* a handler for a delivery it owes; a send of the Transport wrapper ends; *)
(* a packet arrives from a router's open link.                             *)
(***************************************************************************)
\* The data byte names a unit: it is the last byte of a message, of a raw
\* message and of a segment.
UnitOf(unit) == unit[Len(unit)]

Handled(x, eff) ==
    /\ inflight' = (inflight \ {x}) \cup eff.out
    /\ trace' = [trace EXCEPT ![UnitOf(x.unit)] = @ \o eff.evs]

ClientPublish(ack, dst) ==
    /\ exchange
    /\ msgs + pkts < MaxUnits
    /\ LET eff == Produce(bindings, "client->control", <<ack, dst, msgs + pkts + 1>>, 0)
       IN /\ inflight' = inflight \cup eff.out
          /\ trace' = Append(trace, eff.evs)
    /\ msgs' = msgs + 1
    /\ UNCHANGED <<cfgVars, devices, params, lifeVars, busVars, routers, sends, pkts>>

ControlOut(x) ==
    /\ x \in inflight /\ x.queue = "control.out"
    /\ Handled(x, ControlOutmessageMqcallback(bindings, x.unit))
    /\ UNCHANGED <<cfgVars, devices, params, lifeVars, busVars, routers, sends, msgs, pkts>>

ControlIn(x) ==
    /\ x \in inflight /\ x.queue = "control.in"
    /\ Handled(x, ControlInmessageMqcallback(bindings, x.unit))
    /\ UNCHANGED <<cfgVars, devices, params, lifeVars, busVars, routers, sends, msgs, pkts>>

TransportIn(x) ==
    /\ x \in inflight /\ x.queue = "transport.in"
    /\ Handled(x, TransportInsegmentMqcallback(bindings, x.unit))
    /\ UNCHANGED <<cfgVars, devices, params, lifeVars, busVars, routers, sends, msgs, pkts>>

TransportOut(x) ==
    /\ x \in inflight /\ x.queue = "transport.out"
    /\ LET att == Len(sends) + 1
           eff == TransportOutmessageStart(bindings, x.unit, att)
       IN /\ Handled(x, eff)
          /\ sends' = Append(sends, [ctrlmsg |-> eff.ctrlmsg, state |-> "pending",
                                     evs |-> eff.log])
    /\ UNCHANGED <<cfgVars, devices, params, lifeVars, busVars, routers, msgs, pkts>>

TransportSendDone(att, outcome) ==
    /\ att \in DOMAIN sends
    /\ sends[att].state = "pending"
    /\ LET eff == TransportOutmessageDone(bindings, sends[att].ctrlmsg, att, outcome)
       IN /\ inflight' = inflight \cup eff.out
          /\ sends' = [sends EXCEPT ![att].state = outcome, ![att].evs = @ \o eff.evs]
    /\ UNCHANGED <<cfgVars, devices, params, lifeVars, busVars, routers, trace, msgs, pkts>>

RouterOut(x) ==
    /\ x \in inflight /\ x.queue = "routing.out"
    /\ LET r == <<x.owner[2], x.owner[3]>>
       IN Handled(x, RouterOutsegmentMqcallback(routers[r].deviceids, x.owner, x.unit))
    /\ UNCHANGED <<cfgVars, devices, params, lifeVars, busVars, routers, sends, msgs, pkts>>

LinkReceive(r, dst) ==
    /\ r \in DOMAIN routers
    /\ routers[r].linkOpen
    /\ msgs + pkts < MaxUnits
    /\ LET packet == SegmentToPacket(<<2, r[2], dst, msgs + pkts + 1>>)
           eff == RouterInpacketProtocallback(bindings, packet)
       IN /\ inflight' = inflight \cup eff.out
          /\ trace' = Append(trace, <<Event("recv", "packet", packet, RouterOwner(r), 0)>>
                                       \o eff.evs)
    /\ pkts' = pkts + 1
    /\ UNCHANGED <<cfgVars, devices, params, lifeVars, busVars, routers, sends, msgs>>

\* The steps of the network services.  No service of service.py calls
\* Config.get: it is exercised by its own specification, CfgSpec.
Next ==
    \/ \E openable \in [RouterDevs(devices) -> BOOLEAN] : NetStart(openable)
    \/ NetStop
    \/ \E r \in DOMAIN routers, i \in 1..MaxFail, openable \in BOOLEAN :
          RouterTimerFire(r, i, openable)
    \/ \E ack \in 0..1, dst \in Dsts : ClientPublish(ack, dst)
    \/ \E x \in inflight : ControlOut(x)
    \/ \E x \in inflight : TransportOut(x)
    \/ \E att \in DOMAIN sends, outcome \in SendOutcomes : TransportSendDone(att, outcome)
    \/ \E x \in inflight : RouterOut(x)
    \/ \E r \in DOMAIN routers : \E dst \in {0, r[2]} : LinkReceive(r, dst)
    \/ \E x \in inflight : TransportIn(x)
    \/ \E x \in inflight : ControlIn(x)

Spec == Init /\ [][Next]_vars

(***************************************************************************)
(* The service lifecycle alone: start, stop and the reconnect timers.      *)
(***************************************************************************)
LifeNext ==
    \/ \E openable \in [RouterDevs(devices) -> BOOLEAN] : NetStart(openable)
    \/ NetStop
    \/ \E r \in DOMAIN routers, i \in 1..MaxFail, openable \in BOOLEAN :
          RouterTimerFire(r, i, openable)

LifeSpec == Init /\ [][LifeNext]_vars

(***************************************************************************)
(* The message traffic of a NetworkService that is started and stays up.   *)
(***************************************************************************)
MsgNext ==
    \/ \E openable \in [RouterDevs(devices) -> BOOLEAN] : NetStart(openable)
    \/ \E ack \in 0..1, dst \in Dsts : ClientPublish(ack, dst)
    \/ \E x \in inflight : ControlOut(x)
    \/ \E x \in inflight : TransportOut(x)
    \/ \E att \in DOMAIN sends, outcome \in SendOutcomes : TransportSendDone(att, outcome)
    \/ \E x \in inflight : RouterOut(x)
    \/ \E r \in DOMAIN routers : \E dst \in {0, r[2]} : LinkReceive(r, dst)
    \/ \E x \in inflight : TransportIn(x)
    \/ \E x \in inflight : ControlIn(x)

MsgSpec == Init /\ [][MsgNext]_vars

\* The same with the reconnect timers of the routers firing.
UpNext ==
    \/ MsgNext
    \/ \E r \in DOMAIN routers, i \in 1..MaxFail, openable \in BOOLEAN :
          RouterTimerFire(r, i, openable)

UpSpec == Init /\ [][UpNext]_vars

\* The event loop does not idle while the bus owes a callback: some pending
\* delivery is handled.
Deliver(x) ==
    ControlOut(x) \/ TransportOut(x) \/ RouterOut(x) \/ TransportIn(x) \/ ControlIn(x)

MsgFairness == WF_vars(\E x \in inflight : Deliver(x))

MsgLiveSpec == MsgSpec /\ MsgFairness

(***************************************************************************)
(* Config.get on its own: any configuration, any key path, with and        *)
(* without a default.                                                      *)
(***************************************************************************)
CfgInit ==
    /\ devices = RegNoRouter
    /\ params = [d \in DOMAIN devices |-> InitialParams]
    /\ starts = 0
    /\ netRunning = FALSE
    /\ declares = 0
    /\ undeclares = 0
    /\ exchange = FALSE
    /\ bindings = {}
    /\ calls = <<>>
    /\ children = <<>>
    /\ routers = <<>>
    /\ inflight = {}
    /\ sends = <<>>
    /\ trace = <<>>
    /\ msgs = 0
    /\ pkts = 0
    /\ cfgData \in ConfigData
    /\ cfgCall = <<>>
    /\ cfgResult = <<>>

CfgGet(key_path, default) ==
    /\ cfgCall' = <<key_path, default>>
    /\ cfgResult' = ConfigGet(cfgData, key_path, default)
    /\ UNCHANGED <<devices, params, lifeVars, busVars, routers, msgVars, cfgData>>

CfgNext == \E key_path \in KeyPaths, default \in Defaults : CfgGet(key_path, default)

CfgSpec == CfgInit /\ [][CfgNext]_vars

(***************************************************************************)
(* Helpers of the properties.                                              *)
(***************************************************************************)
\* The events a step appended to the history of unit u.
NewEvents(u) ==
    IF u \in DOMAIN trace
    THEN SubSeq(trace'[u], Len(trace[u]) + 1, Len(trace'[u]))
    ELSE trace'[u]

\* The events of one Transport attempt, in order.
AttemptEvents(att) == sends[att].evs

AckErrPubs(att) ==
    {i \in DOMAIN AttemptEvents(att) :
        /\ AttemptEvents(att)[i].ev = "pub"
        /\ AttemptEvents(att)[i].key \in {"transport->ack", "transport->err"}}

\* The authorized ids of the router of device d, read from the registry.
Authorized(d) == {d} \cup devices[d].nodes

(***************************************************************************)
(* C1: a segment delivered to a router's outbound handler is handed to the *)
(* wrapper's send operation if and only if its byte at offset 2 is the     *)
(* device's own id or one of its node ids; any other segment is dropped:   *)
(* the handler returns False, hands nothing to the link and publishes      *)
(* nothing.                                                                *)
(***************************************************************************)
C1_Outcome(x) ==
    LET new == NewEvents(UnitOf(x.unit))
        handed == \E i \in DOMAIN new :
                     new[i].ev = "link" /\ new[i].unit = x.unit /\ new[i].who = x.owner
    IN /\ handed <=> x.unit[3] \in Authorized(x.owner[3])
       /\ ~handed => new = <<Event("ret", "False", x.unit, x.owner, 0)>>
       /\ \A i \in DOMAIN new : new[i].ev # "pub"
       /\ inflight' = inflight \ {x}

C1_RouterFilter == [][\A x \in inflight : RouterOut(x) => C1_Outcome(x)]_vars

\* One segment was handed to the link by one router and dropped by another.
C1_Witness ==
    \E u \in DOMAIN trace : \E i, j \in DOMAIN trace[u] :
        /\ trace[u][i].ev = "link"
        /\ trace[u][j].ev = "ret" /\ trace[u][j].key = "False"
        /\ trace[u][i].who # trace[u][j].who

C3_NoAckNoErr ==
    \A att \in DOMAIN sends :
        (sends[att].state = "true" /\ sends[att].ctrlmsg[1] = 0) => AckErrPubs(att) = {}

C3_Witness ==
    \E att \in DOMAIN sends : sends[att].state = "true" /\ sends[att].ctrlmsg[1] = 0

(***************************************************************************)
(* C4: when the send fails, with or without ack request, the attempt       *)
(* called send_message once, then published on transport->err the Control  *)
(* message derived from the raw message it was given, then ended as a      *)
(* failure; nothing else happened in the attempt.                          *)
(***************************************************************************)
C4_ErrThenFailure ==
    \A att \in DOMAIN sends :
        sends[att].state = "raise" =>
            LET evs == AttemptEvents(att)
            IN /\ Len(evs) = 3
               /\ evs[1].ev = "send"
               /\ evs[2] = Pub("transport->err", RawToMessage(evs[1].unit), att)
               /\ evs[3].ev = "ret" /\ evs[3].key = "failure"

C4_Witness ==
    \E att \in DOMAIN sends :
        /\ sends[att].state = "raise" /\ sends[att].ctrlmsg[1] = 0
        /\ Len(AttemptEvents(att)) = 3

(***************************************************************************)
(* C5: the k-th connect failure of a RouterService instance takes its      *)
(* failure counter from k-1 to k and schedules the next attempt after      *)
(* k x 1 time units: the counter is the number of failed attempts and the  *)
(* delays scheduled so far are 1, 2, ..., k.                               *)
(***************************************************************************)
C5_LinearBackoff ==
    \A r \in DOMAIN routers :
        LET rec == routers[r]
        IN /\ rec.nums = rec.attempts - (IF rec.litemq THEN 1 ELSE 0)
           /\ Len(rec.sched) = rec.nums
           /\ \A k \in DOMAIN rec.sched : rec.sched[k] = k * 1

\* A router has failed twice.
C5_Witness ==
    \E r \in DOMAIN routers : routers[r].nums = 2 /\ routers[r].sched = <<1, 2>>

(***************************************************************************)
(* C6: once a RouterService has been stopped, its reconnect timer never    *)
(* fires: it makes no further connect attempt, schedules no new timer and  *)
(* creates no routing.out subscription.                                    *)
(***************************************************************************)
C6_NoFireAfterStop ==
    [][\A r \in DOMAIN routers :
          routers[r].stopped =>
              /\ routers'[r].attempts = routers[r].attempts
              /\ routers'[r].timers = routers[r].timers
              /\ \A x \in bindings' : x.owner = RouterOwner(r) => x \in bindings]_vars

(***************************************************************************)
(* C7: each NetworkService start declares the exchange exactly once and    *)
(* each stop undeclares it exactly once, with no router or with several:   *)
(* the declares are the starts, the undeclares are the stops, and their    *)
(* difference is 1 while running and 0 while stopped.                      *)
(***************************************************************************)
C7_DeclareOncePerStart ==
    /\ declares = starts
    /\ undeclares = starts - (IF netRunning THEN 1 ELSE 0)
    /\ declares - undeclares = (IF netRunning THEN 1 ELSE 0)

\* The second start of a registry without routers.
C7_Witness ==
    /\ RouterDevs(devices) = {}
    /\ netRunning
    /\ declares = 2 /\ undeclares = 1

(***************************************************************************)
(* C8: outbound round trip.  A client message published on client->control *)
(* while a router with an open link and its routing.out subscription is    *)
(* authorized for the destination is eventually followed, in this order,   *)
(* by the publish of its raw form on control->transport, the publish of    *)
(* its segment on transport->routing and the hand-over of that segment to  *)
(* the router's link.                                                      *)
(***************************************************************************)
C8_Published(u, d) ==
    /\ u \in DOMAIN trace
    /\ trace[u][1].ev = "pub" /\ trace[u][1].key = "client->control"
    /\ <<1, d>> \in DOMAIN routers
    /\ routers[<<1, d>>].linkOpen
    /\ Binding("routing.out", "transport->routing", RouterOwner(<<1, d>>)) \in bindings
    /\ trace[u][1].unit[2] \in Authorized(d)

C8_OnLink(u, d) ==
    /\ u \in DOMAIN trace
    /\ LET h == trace[u]
           raw == MessageToRaw(h[1].unit)
           seg == RawToSegment(raw)
       IN \E i, j, k \in DOMAIN h :
             /\ 1 < i /\ i < j /\ j < k
             /\ h[i] = Pub("control->transport", raw, 0)
             /\ h[j] = Pub("transport->routing", seg, 0)
             /\ h[k] = Event("link", "send_segment", seg, RouterOwner(<<1, d>>), 0)

C8_OutboundRoundTrip ==
    \A u \in 1..MaxUnits :
        (\E d \in 1..3 : C8_Published(u, d))
            ~> (\A d \in 1..3 : C8_Published(u, d) => C8_OnLink(u, d))

C8_Witness == \E u \in 1..MaxUnits, d \in 1..3 : C8_Published(u, d) /\ C8_OnLink(u, d)

(***************************************************************************)
(* C9: inbound round trip.  A packet decoded at a connected router's link, *)
(* whatever its destination byte, is eventually followed, in this order,   *)
(* by the publish of its segment on routing->transport, the publish of the *)
(* raw message on transport->control and the publish of the decoded        *)
(* message on control->client.                                             *)
(***************************************************************************)
C9_Received(u) ==
    /\ u \in DOMAIN trace
    /\ trace[u][1].ev = "recv"

C9_AtClient(u) ==
    /\ u \in DOMAIN trace
    /\ LET h == trace[u]
           seg == PacketToSegment(h[1].unit)
           raw == SegmentToRaw(seg)
       IN \E i, j, k \in DOMAIN h :
             /\ 1 < i /\ i < j /\ j < k
             /\ h[i] = Pub("routing->transport", seg, 0)
             /\ h[j] = Pub("transport->control", raw, 0)
             /\ h[k] = Pub("control->client", RawToMessage(raw), 0)

C9_InboundRoundTrip == \A u \in 1..MaxUnits : C9_Received(u) ~> C9_AtClient(u)

\* A packet whose destination byte is no device's id reached the client.
C9_Witness ==
    \E u \in 1..MaxUnits :
        C9_Received(u) /\ C9_AtClient(u) /\ trace[u][1].unit[4] = 0

(***************************************************************************)
(* C10: Config.get returns the value stored at the key path when every key *)
(* of the path is present; when a key of the path is absent it returns the *)
(* default if one was supplied and raises ConfigKeyError(key_path) if none *)
(* was.                                                                    *)
(***************************************************************************)
RECURSIVE PathPresent(_, _)
PathPresent(value, path) ==
    \/ path = <<>>
    \/ /\ IsDict(value)
       /\ Head(path) \in DOMAIN value[2]
       /\ PathPresent(value[2][Head(path)], Tail(path))

RECURSIVE ValueAt(_, _)
ValueAt(value, path) ==
    IF path = <<>> THEN value ELSE ValueAt(value[2][Head(path)], Tail(path))

C10_GetContract ==
    cfgCall # <<>> =>
        LET key_path == cfgCall[1]
            default == cfgCall[2]
        IN IF PathPresent(cfgData, key_path)
           THEN cfgResult = <<"return", ValueAt(cfgData, key_path)>>
           ELSE IF default # None
                THEN cfgResult = <<"return", default>>
                ELSE cfgResult = <<"raise", "ConfigKeyError", key_path>>

(***************************************************************************)
(* Helpers of the lifecycle properties, over the calls of one instance.    *)
(***************************************************************************)
\* The child services NetworkService instance g was given.
ServicesOf(g) ==
    {ControlOwner, TransportOwner} \cup
    {RouterOwner(r) : r \in {x \in DOMAIN routers : x[1] = g}}

\* The queues a service subscribes.
QueuesOf(o) ==
    IF o[1] = "control" THEN {"control.in", "control.out"}
    ELSE IF o[1] = "transport" THEN {"transport.in", "transport.out"}
    ELSE {"routing.out"}

\* The positions in the calls of instance g of a call of service o.
CallsAt(g, op, o, q) ==
    {i \in DOMAIN calls[g] :
        calls[g][i].op = op /\ calls[g][i].who = o /\ calls[g][i].queue = q}

\* The call sequence cs holds the call op of service o.
HasCall(cs, op, o) == \E i \in DOMAIN cs : cs[i] = Call(op, "", "", o)

HasStarted(g, o) == CallsAt(g, "startService", o, "") # {}
HasStopped(g, o) == CallsAt(g, "stopService", o, "") # {}

(***************************************************************************)
(* C11: over starts, connect failures, retries and stops, every service    *)
(* registers each of its subscriptions by consume exactly once in its      *)
(* lifecycle (a router when its connect succeeds) and removes it by        *)
(* unconsume exactly once on stop, the consume before the unconsume; no    *)
(* subscription is on the bus once its owner has been stopped.             *)
(***************************************************************************)
C11_SubscribeOncePerLifecycle ==
    /\ \A g \in DOMAIN calls : \A o \in ServicesOf(g) : \A q \in QueuesOf(o) :
          /\ Cardinality(CallsAt(g, "consume", o, q)) =
                 (IF HasStarted(g, o) THEN 1 ELSE 0)
          /\ Cardinality(CallsAt(g, "unconsume", o, q)) =
                 (IF HasStarted(g, o) /\ HasStopped(g, o) THEN 1 ELSE 0)
          /\ \A i \in CallsAt(g, "consume", o, q) :
                /\ \A j \in CallsAt(g, "unconsume", o, q) : i < j
                /\ \A j \in CallsAt(g, "stopService", o, "") : i < j
    /\ \A x \in bindings :
          /\ netRunning
          /\ x.owner \in ServicesOf(starts)
          /\ ~HasStopped(starts, x.owner)

\* An instance was stopped with one router connected and another failing,
\* and the failing router has retried since.
C11_Witness ==
    /\ ~netRunning
    /\ \E r1, r2 \in DOMAIN routers :
          /\ r1[1] = r2[1]
          /\ routers[r1].litemq /\ routers[r1].stopped
          /\ HasStopped(r1[1], RouterOwner(r1))
          /\ routers[r2].stopped /\ routers[r2].attempts >= 2

(***************************************************************************)
(* C12: a RouterService holds the routing.out subscription and is started  *)
(* only if its attempt to open the physical link succeeded, whatever the   *)
(* connection type; after a failed attempt it is not started and has no    *)
(* subscription.                                                           *)
(***************************************************************************)
RouterSubscribedIn(b, r) ==
    Binding("routing.out", "transport->routing", RouterOwner(r)) \in b

RouterSubscribed(r) == RouterSubscribedIn(bindings, r)

C12_SubscribedOnlyIfLinkOpened ==
    \A r \in DOMAIN routers :
        /\ (RouterSubscribed(r) \/ routers[r].running) => routers[r].linkOpen
        /\ routers[r].timers # <<>> => ~RouterSubscribed(r) /\ ~routers[r].running

(***************************************************************************)
(* C13: reconnect liveness.  Every failed connect attempt re-arms the      *)
(* reconnect timer, and a retry of a running router that is made while the *)
(* physical link is openable opens the link, subscribes routing.out and    *)
(* completes startup, so that a router whose first attempt failed connects *)
(* once the link has become openable and its timer fires.                  *)
(***************************************************************************)
C13_RetryConnects ==
    [][\A r \in DOMAIN routers :
          /\ routers'[r].nums > routers[r].nums => routers'[r].timers # <<>>
          /\ (~routers[r].stopped /\ \E i \in 1..MaxFail : RouterTimerFire(r, i, TRUE))
                 => /\ routers'[r].linkOpen
                    /\ routers'[r].running
                    /\ RouterSubscribed(r)']_vars

(***************************************************************************)
(* C14: the connect attempts only read the Connection spec: after any      *)
(* number of attempts, successful or failed, the parameters of every       *)
(* connection, the key 'port' included, are what they were before the      *)
(* first attempt.                                                          *)
(***************************************************************************)
C14_ParamsUnchanged ==
    \A d \in DOMAIN params : params[d] = InitialParams

(***************************************************************************)
(* C15: connect failures never escalate.  Whatever the outcome of each     *)
(* router's link-open attempt, NetworkService.startService completes with  *)
(* ControlService and TransportService started and subscribed, and every   *)
(* router has made its own attempt with the outcome of its own link; a     *)
(* later failed retry changes neither the NetworkService, nor the          *)
(* subscriptions, nor any other router.                                    *)
(***************************************************************************)
C15_FailuresContained ==
    [][/\ \A openable \in [{d \in DOMAIN devices : devices[d].router} -> BOOLEAN] :
             NetStart(openable) =>
                /\ netRunning'
                /\ HasCall(calls'[starts'], "startService", ControlOwner)
                /\ HasCall(calls'[starts'], "startService", TransportOwner)
                /\ {Binding("control.in", "transport->control", ControlOwner),
                    Binding("control.out", "client->control", ControlOwner),
                    Binding("transport.in", "routing->transport", TransportOwner),
                    Binding("transport.out", "control->transport", TransportOwner)}
                       \subseteq bindings'
                /\ \A d \in DOMAIN openable :
                      LET rec == routers'[<<starts', d>>]
                          fails == /\ devices[d].ctype = "serial"
                                   /\ ("port" \notin params[d] \/ ~openable[d])
                      IN /\ rec.attempts = 1
                         /\ rec.running = ~fails
                         /\ RouterSubscribedIn(bindings', <<starts', d>>) = ~fails
                         /\ fails => rec.timers = <<RECONNECT_DELAY>>
       /\ \A r \in DOMAIN routers :
             routers'[r].nums > routers[r].nums =>
                /\ netRunning' = netRunning
                /\ bindings' = bindings
                /\ \A o \in DOMAIN routers : o # r => routers'[o] = routers[o]]_vars

\* A running NetworkService with one router connected and another that has
\* failed at start and again at its first retry.
C15_Witness ==
    /\ netRunning
    /\ HasStarted(starts, ControlOwner) /\ HasStarted(starts, TransportOwner)
    /\ \E r1, r2 \in DOMAIN routers :
          /\ r1[1] = starts /\ r2[1] = starts
          /\ routers[r1].running /\ RouterSubscribed(r1)
          /\ routers[r2].nums = 2 /\ ~routers[r2].running

(***************************************************************************)
(* C16: on NetworkService stop every child has been stopped and has        *)
(* removed its subscriptions before undeclare_exchange("network") is       *)
(* called, and no unconsume on the exchange follows the undeclare.         *)
(***************************************************************************)
C16_ChildrenStoppedBeforeUndeclare ==
    \A g \in DOMAIN calls : \A j \in DOMAIN calls[g] :
        calls[g][j].op = "undeclare_exchange" =>
            /\ \A o \in ServicesOf(g) :
                  \E i \in 1..(j - 1) : calls[g][i] = Call("stopService", "", "", o)
            /\ ApplyCalls({}, SubSeq(calls[g], 1, j - 1)) = {}
            /\ \A k \in DOMAIN calls[g] : k > j => calls[g][k].op # "unconsume"

\* A NetworkService was stopped with one router connected and another with
\* a pending timer, and that timer has fired since.
C16_Witness ==
    /\ ~netRunning /\ starts > 0
    /\ \E j \in DOMAIN calls[starts] : calls[starts][j].op = "undeclare_exchange"
    /\ \E i \in DOMAIN calls[starts] :
          calls[starts][i].op = "unconsume" /\ calls[starts][i].queue = "routing.out"
    /\ \E r \in DOMAIN routers :
          r[1] = starts /\ routers[r].stopped /\ routers[r].attempts >= 2

(***************************************************************************)
(* C17: after NetworkService start the RouterService children correspond   *)
(* one-to-one to the devices of the registry whose router flag is set,     *)
(* each scoped to its device's own and node ids, and the set does not      *)
(* change while the service runs, whatever connect failures, retries or    *)
(* message traffic occur.                                                  *)
(***************************************************************************)
C17_OneToOne(ch, rs, g) ==
    LET flagged == {d \in DOMAIN devices : devices[d].router}
    IN /\ {r \in DOMAIN rs : r[1] = g} = {<<g, d>> : d \in flagged}
       /\ \A d \in DOMAIN devices :
             Cardinality({i \in DOMAIN ch : ch[i] = RouterOwner(<<g, d>>)}) =
                (IF d \in flagged THEN 1 ELSE 0)
       /\ \A i \in DOMAIN ch :
             ch[i][1] = "router" => ch[i][2] = g /\ ch[i][3] \in flagged
       /\ \A d \in flagged : rs[<<g, d>>].deviceids = {d} \cup devices[d].nodes

C17_RouterSetFixed ==
    [][/\ netRunning' => C17_OneToOne(children', routers', starts')
       /\ netRunning /\ netRunning' =>
             children' = children /\ DOMAIN routers' = DOMAIN routers]_vars

\* Two routers, one of them failing and retrying, with traffic under way.
C17_Witness ==
    /\ netRunning
    /\ Cardinality({r \in DOMAIN routers : r[1] = starts}) = 2
    /\ \E r \in DOMAIN routers : routers[r].nums = 2
    /\ \E r \in DOMAIN routers : routers[r].linkOpen
    /\ msgs + pkts > 0 /\ inflight # {}

(***************************************************************************)
(* C18: child services are created once per NetworkService start and       *)
(* destroyed on its stop.  A running NetworkService holds exactly one      *)
(* ControlService, one TransportService and one RouterService per device   *)
(* flagged as router, all of its latest start; a stopped NetworkService    *)
(* holds no child.                                                         *)
(***************************************************************************)
ChildCount(o) == Cardinality({i \in DOMAIN children : children[i] = o})

C18_ChildrenPerStart ==
    LET flagged == {d \in DOMAIN devices : devices[d].router}
    IN /\ netRunning =>
             /\ ChildCount(ControlOwner) = 1
             /\ ChildCount(TransportOwner) = 1
             /\ \A d \in flagged : ChildCount(RouterOwner(<<starts, d>>)) = 1
             /\ Len(children) = 2 + Cardinality(flagged)
       /\ ~netRunning => children = <<>>

(***************************************************************************)
(* C19: each queue name on the exchange is consumed by at most one         *)
(* handler, also with two or more routers connected at the same time, and  *)
(* the unconsume of a stopping service removes no subscription of another  *)
(* service.                                                                *)
(***************************************************************************)
QueueNames == {"control.in", "control.out", "transport.in", "transport.out", "routing.out"}

C19_OneHandlerPerQueue ==
    /\ \A q \in QueueNames : Cardinality({x \in bindings : x.queue = q}) <= 1
    /\ \A g \in DOMAIN calls : \A j \in DOMAIN calls[g] :
          calls[g][j].op = "unconsume" =>
              LET before == ApplyCalls({}, SubSeq(calls[g], 1, j - 1))
              IN \A x \in before \ ApplyCall(before, calls[g][j]) :
                    x.owner = calls[g][j].who

(***************************************************************************)
(* C20: a RouterService instance has at most one pending reconnect timer;  *)
(* a timer is pending only while the router has not connected; once the    *)
(* router is connected no timer is pending and the instance makes no       *)
(* further connect attempt and opens no further link.                      *)
(***************************************************************************)
C20_AtMostOneTimer ==
    [][\A r \in DOMAIN routers' :
          /\ Len(routers'[r].timers) <= 1
          /\ routers'[r].timers # <<>> =>
                 /\ ~routers'[r].litemq /\ ~routers'[r].linkOpen
                 /\ ~RouterSubscribedIn(bindings', r)
          /\ (r \in DOMAIN routers /\ routers[r].litemq) =>
                 /\ routers'[r].timers = <<>>
                 /\ routers'[r].attempts = routers[r].attempts
                 /\ routers'[r].linkOpen = routers[r].linkOpen]_vars

\* One router is connected while another, which has failed twice, waits
\* for its timer.
C20_Witness ==
    \E r1, r2 \in DOMAIN routers :
        /\ r1[1] = r2[1]
        /\ routers[r1].litemq /\ routers[r1].linkOpen /\ routers[r1].timers = <<>>
        /\ routers[r2].nums = 2 /\ Len(routers[r2].timers) = 1

====
